---- MODULE Spec2Model ----
(***************************************************************************)
(* A model of etl.py: the World Bank indicator ETL script.                 *)
(*                                                                         *)
(* Strings are sequences of one-character strings, so that strip, lower,   *)
(* upper and the two regular-expression substitutions are computed         *)
(* character by character.  A missing string (None / NaN in an object      *)
(* column) is the one-element sequence NA.  Numbers are binary fractions,  *)
(* float64 values being rounded as IEEE 754 rounds; a JSON scalar is null, *)
(* an int, a float or a string.  The repository pins no version of pandas, *)
(* and astype(str) treats a missing value differently before and from      *)
(* version 3.0: which of the two is installed is chosen when a run starts. *)
(***************************************************************************)
EXTENDS Integers, Sequences, FiniteSets, TLC

VARIABLES
    \* the top-level script (lines 156-179)
    pc,              \* the statement the script is at
    countries_df,    \* line 160
    page,            \* extract_worldbank_indicator: line 36
    full_records,    \* line 37
    flat_records,    \* line 38
    requests,        \* the page numbers of the GET requests issued, in order
    responses,       \* what each request was answered with, in order
    raw_json,        \* line 161
    wb_df,           \* line 161
    countries_clean, \* line 166
    wb_clean,        \* line 167
    merged,          \* line 168
    files,           \* the output files written so far, in order
    error,           \* the exception that ended the script, or "none"
    defined,         \* the top-level names assigned so far
    \* the functions called on their own
    hpc,             \* which call has been made
    name_in,         \* argument of normalize_country_name
    norm1,           \* normalize_country_name(name_in)
    norm2,           \* normalize_country_name(norm1)
    cols,            \* argument of standardize_colnames
    mapping,         \* standardize_colnames(cols)
    df_in,           \* argument of clean_worldbank_df
    out_latest,      \* clean_worldbank_df(df_in)
    \* the installation
    pandas3          \* the installed pandas is of version 3.0 or later

scriptVars == <<pc, countries_df, page, full_records, flat_records, requests,
                responses, raw_json, wb_df, countries_clean, wb_clean, merged,
                files, error, defined>>
callVars == <<hpc, name_in, norm1, norm2, cols, mapping, df_in, out_latest>>
vars == <<scriptVars, callVars, pandas3>>

----------------------------------------------------------------------------
(* Bounds *)

MaxLen == 5        \* longest country name given to normalize_country_name
MaxCols == 3       \* most columns in a header list
MaxRows == 3       \* most rows of an indicator table given to clean_worldbank_df
MaxPages == 3      \* largest page count the API reports
MaxRefRows == 2    \* most rows of the reference CSV

----------------------------------------------------------------------------
(* Characters and strings *)

\* The characters of the model, in code-point order.
Chars ==
    << "\t", " ", "'", "(", ")", "+", ",", "-", ".",
       "0", "1", "2", "3", "4", "5", "6", "7", "8", "9",
       "A", "B", "C", "D", "E", "F", "G", "H", "I", "J", "K", "L", "M",
       "N", "O", "P", "Q", "R", "S", "T", "U", "V", "W", "X", "Y", "Z",
       "_",
       "a", "b", "c", "d", "e", "f", "g", "h", "i", "j", "k", "l", "m",
       "n", "o", "p", "q", "r", "s", "t", "u", "v", "w", "x", "y", "z" >>

CharSet == {Chars[i] : i \in 1..Len(Chars)}

Ord == [c \in CharSet |-> CHOOSE i \in 1..Len(Chars) : Chars[i] = c]

Digits == {Chars[i] : i \in Ord["0"]..Ord["9"]}
UpperCase == {Chars[i] : i \in Ord["A"]..Ord["Z"]}
LowerCase == {Chars[i] : i \in Ord["a"]..Ord["z"]}

\* \s of the re module
IsSpace(c) == c \in {" ", "\t"}

\* \w of the re module
IsWord(c) == c \in Digits \cup UpperCase \cup LowerCase \cup {"_"}

LowerChar(c) == IF c \in UpperCase THEN Chars[Ord[c] + (Ord["a"] - Ord["A"])] ELSE c

UpperChar(c) == IF c \in LowerCase THEN Chars[Ord[c] - (Ord["a"] - Ord["A"])] ELSE c

\* str.lower()
Lower(s) == [i \in 1..Len(s) |-> LowerChar(s[i])]

\* str.upper()
Upper(s) == [i \in 1..Len(s) |-> UpperChar(s[i])]

\* str.strip(): leading and trailing whitespace removed
Strip(s) ==
    LET solid == {i \in 1..Len(s) : ~IsSpace(s[i])}
    IN  IF solid = {} THEN <<>>
        ELSE LET lo == CHOOSE i \in solid : \A j \in solid : i <= j
                 hi == CHOOSE i \in solid : \A j \in solid : j <= i
             IN  SubSeq(s, lo, hi)

\* re.sub(r"[^\w\s]", "", s)
DropPunct(s) == SelectSeq(s, LAMBDA c : IsWord(c) \/ IsSpace(c))

\* re.sub(r"\s+", " ", s): each maximal run of whitespace becomes one space
CollapseSpace(s) ==
    LET idx == [i \in 1..Len(s) |-> i]
        keep == SelectSeq(idx, LAMBDA i : \/ ~IsSpace(s[i])
                                          \/ i = 1
                                          \/ ~IsSpace(s[i - 1]))
    IN  [k \in 1..Len(keep) |-> IF IsSpace(s[keep[k]]) THEN " " ELSE s[keep[k]]]

\* s < t for Python strings (code-point lexicographic order)
StrLess(s, t) ==
    \E k \in 1..(Len(t)) :
        /\ \A j \in 1..(k - 1) : j <= Len(s) /\ s[j] = t[j]
        /\ \/ k = Len(s) + 1
           \/ k <= Len(s) /\ Ord[s[k]] < Ord[t[k]]

\* A missing value of an object column (None, NaN).
NAtok == "<NA>"
NA == <<NAtok>>

\* Numbers (the cells of an int64, uint64 or float64 column, Python ints and
\* floats).  A finite number is (-1)^neg * 0.b1b2...bk * 2^exp in binary, with
\* bits = <<b1, ..., bk>>, b1 and bk being "1"; zero has no bits and exp 0.
\* A float64 has at most 53 bits, and none below 2^-1074.
NaN == [cls |-> "nan", neg |-> FALSE, bits |-> <<>>, exp |-> 0]
Zero == [cls |-> "fin", neg |-> FALSE, bits |-> <<>>, exp |-> 0]
Inf == [cls |-> "inf", neg |-> FALSE, bits |-> <<>>, exp |-> 0]
NegInf == [cls |-> "inf", neg |-> TRUE, bits |-> <<>>, exp |-> 0]

\* digit strings without their leading and their trailing zeros
DropLeadingZeros(ds) ==
    LET nz == {i \in 1..Len(ds) : ds[i] # "0"}
    IN  IF nz = {} THEN <<>>
        ELSE SubSeq(ds, CHOOSE i \in nz : \A j \in nz : i <= j, Len(ds))

DropTrailingZeros(ds) ==
    LET nz == {i \in 1..Len(ds) : ds[i] # "0"}
    IN  IF nz = {} THEN <<>>
        ELSE SubSeq(ds, 1, CHOOSE i \in nz : \A j \in nz : j <= i)

\* A natural number of any size is the sequence of its digits in base Base,
\* the lowest first and the highest not 0; zero is the empty sequence.  The
\* operations on them recur to a depth logarithmic in their size.
LimbBits == 10
Base == 2^LimbBits
One == <<1>>

\* a without its highest digits that are 0
Trim(a) ==
    LET nz == {i \in 1..Len(a) : a[i] # 0}
    IN  IF nz = {} THEN <<>>
        ELSE SubSeq(a, 1, CHOOSE i \in nz : \A j \in nz : j <= i)

\* the natural number n < Base^3
Limbs(n) == Trim(<<n % Base, (n \div Base) % Base, n \div (Base * Base)>>)

\* One pass of carries over the columns c, each a natural number: a column
\* keeps its lowest digit and receives what the column below it exceeds.
Pass(c) ==
    IF c = <<>> THEN <<>>
    ELSE [i \in 1..Len(c) |->
             (c[i] % Base) + (IF i > 1 THEN c[i - 1] \div Base ELSE 0)]
         \o <<c[Len(c)] \div Base>>

\* the carry into column i of the columns s, each at most 2 * Base - 2
CarryIn(s, i) ==
    \E j \in 1..(i - 1) :
        s[j] >= Base /\ \A k \in (j + 1)..(i - 1) : s[k] = Base - 1

\* The natural number whose columns are c, each below 2^31: three passes
\* leave columns of at most Base + 2, and the last carries are settled at once.
Settle(s) ==
    Trim([i \in 1..Len(s) |-> (s[i] + (IF CarryIn(s, i) THEN 1 ELSE 0)) % Base]
         \o <<IF CarryIn(s, Len(s) + 1) THEN 1 ELSE 0>>)

Normalize(c) == Settle(Pass(Pass(Pass(c))))

\* a + b
Add(a, b) ==
    Normalize([i \in 1..(IF Len(a) > Len(b) THEN Len(a) ELSE Len(b)) |->
                  (IF i <= Len(a) THEN a[i] ELSE 0)
                  + (IF i <= Len(b) THEN b[i] ELSE 0)] \o <<>>)

\* a * k, for 0 <= k < 2^21
MulSmall(a, k) == Normalize([i \in 1..Len(a) |-> a[i] * k] \o <<>>)

\* the sum of a[i] * b[k + 1 - i] for i in lo..hi
RECURSIVE SumProd(_, _, _, _, _)
SumProd(a, b, k, lo, hi) ==
    IF lo > hi THEN 0
    ELSE IF lo = hi THEN a[lo] * b[k + 1 - lo]
    ELSE SumProd(a, b, k, lo, (lo + hi) \div 2)
         + SumProd(a, b, k, ((lo + hi) \div 2) + 1, hi)

\* a * b
Mul(a, b) ==
    IF a = <<>> \/ b = <<>> THEN <<>>
    ELSE Normalize([k \in 1..(Len(a) + Len(b) - 1) |->
                       SumProd(a, b, k,
                               IF k + 1 - Len(b) > 1 THEN k + 1 - Len(b) ELSE 1,
                               IF k < Len(a) THEN k ELSE Len(a))] \o <<>>)

\* the borrow from column i of the differences d
BorrowIn(d, i) ==
    \E j \in 1..(i - 1) : d[j] < 0 /\ \A k \in (j + 1)..(i - 1) : d[k] = 0

SettleDiff(d) ==
    Trim([i \in 1..Len(d) |->
             (d[i] - (IF BorrowIn(d, i) THEN 1 ELSE 0) + Base) % Base])

\* a - b, for a >= b
Sub(a, b) ==
    SettleDiff([i \in 1..Len(a) |-> a[i] - (IF i <= Len(b) THEN b[i] ELSE 0)]
               \o <<>>)

\* a >= b
GreaterEq(a, b) ==
    \/ Len(a) > Len(b)
    \/ /\ Len(a) = Len(b)
       /\ LET d == {i \in 1..Len(a) : a[i] # b[i]}
          IN  d = {} \/ LET top == CHOOSE i \in d : \A j \in d : j <= i
                        IN  a[top] > b[top]

\* 10^x
RECURSIVE Pow10(_)
Pow10(x) ==
    IF x <= 6 THEN Limbs(10^x)
    ELSE IF x % 2 = 0 THEN Mul(Pow10(x \div 2), Pow10(x \div 2))
    ELSE MulSmall(Pow10(x - 1), 10)

\* the value of a string of at most 9 decimal digits
RECURSIVE DigitsValue(_)
DigitsValue(s) ==
    IF s = <<>> THEN 0
    ELSE 10 * DigitsValue(SubSeq(s, 1, Len(s) - 1)) + (Ord[s[Len(s)]] - Ord["0"])

\* the natural number written with the decimal digits ds
RECURSIVE FromDigits(_)
FromDigits(ds) ==
    IF Len(ds) <= 9 THEN Limbs(DigitsValue(ds))
    ELSE Add(Mul(FromDigits(SubSeq(ds, 1, Len(ds) \div 2)),
                 Pow10(Len(ds) - (Len(ds) \div 2))),
             FromDigits(SubSeq(ds, (Len(ds) \div 2) + 1, Len(ds))))

\* a * 10^x
TimesPow10(a, x) == IF x = 0 THEN a ELSE Mul(a, Pow10(x))

\* a * 2^t
ShiftLeft(a, t) ==
    IF a = <<>> THEN <<>>
    ELSE [i \in 1..(t \div LimbBits) |-> 0] \o MulSmall(a, 2^(t % LimbBits))

\* the binary digits of a, the highest first
IntBits(a) ==
    DropLeadingZeros(
        [i \in 1..(LimbBits * Len(a)) |->
            IF (a[Len(a) - ((i - 1) \div LimbBits)]
                    \div 2^(LimbBits - 1 - ((i - 1) % LimbBits))) % 2 = 1
            THEN "1" ELSE "0"])

\* the next n binary digits of cur / b, for cur < 2 * b, after acc, and what
\* is left of cur
RECURSIVE QuotBits(_, _, _, _)
QuotBits(cur, b, n, acc) ==
    IF n = 0 THEN [bits |-> acc, rem |-> cur]
    ELSE IF GreaterEq(cur, b)
    THEN QuotBits(MulSmall(Sub(cur, b), 2), b, n - 1, Append(acc, "1"))
    ELSE QuotBits(MulSmall(cur, 2), b, n - 1, Append(acc, "0"))

\* the first 7 * n binary digits q1.q2q3... of cur / b, for cur < 2 * b, or
\* all of them when they are fewer, and whether they are the whole of it
RECURSIVE QuotChunks(_, _, _, _)
QuotNext(step, b, n, acc) == QuotChunks(step.rem, b, n, acc \o step.bits)

QuotChunks(cur, b, n, acc) ==
    IF cur = <<>> \/ n = 0 THEN [bits |-> acc, exact |-> cur = <<>>]
    ELSE QuotNext(QuotBits(cur, b, 7, <<>>), b, n - 1, acc)

\* the number (-1)^neg * 0.bits * 2^e: the float64 it is, infinite past the
\* largest one
Finite(neg, bits, e) ==
    IF DropTrailingZeros(bits) = <<>> THEN Zero
    ELSE IF e > 1024 THEN (IF neg THEN NegInf ELSE Inf)
    ELSE [cls |-> "fin", neg |-> neg, bits |-> DropTrailingZeros(bits),
          exp |-> e]

\* 0.kept * 2^e plus one unit in the last place of kept
RoundUp(neg, kept, e) ==
    LET zeros == {i \in 1..Len(kept) : kept[i] = "0"}
    IN  IF zeros = {} THEN Finite(neg, <<"1">>, e + 1)
        ELSE Finite(neg,
                    Append(SubSeq(kept, 1,
                                  (CHOOSE i \in zeros : \A j \in zeros : j <= i) - 1),
                           "1"),
                    e)

\* (-1)^neg * 0.f * 2^e, f beginning with "1" and followed by more digits
\* when more is set, rounded to the nearest float64, a tie to the even one
\* (IEEE 754 round-half-even): p binary digits are kept, 53 or as many as lie
\* above 2^-1074
Round(neg, f, e, more) ==
    LET p == IF e + 1074 < 53 THEN e + 1074 ELSE 53
    IN  IF f = <<>> \/ p < 0 THEN Zero
        ELSE IF Len(f) <= p THEN Finite(neg, f, e)
        ELSE IF /\ f[p + 1] = "1"
                /\ \/ more
                   \/ \E i \in (p + 2)..Len(f) : f[i] = "1"
                   \/ p >= 1 /\ f[p] = "1"
        THEN RoundUp(neg, SubSeq(f, 1, p), e)
        ELSE Finite(neg, SubSeq(f, 1, p), e)

\* the integer whose binary digits are f, the highest first and not "0"
ExactBits(neg, f) ==
    IF f = <<>> THEN Zero
    ELSE [cls |-> "fin", neg |-> neg, bits |-> DropTrailingZeros(f),
          exp |-> Len(f)]

\* the integer (-1)^neg * a, exactly (an int64, a uint64, a Python int)
ExactInt(neg, a) == ExactBits(neg, IntBits(a))

\* the natural number n < Base^3 as a number of the model
Number(n) == ExactInt(FALSE, Limbs(n))

\* float(n): a number as a float64
ToDouble(n) == IF n.cls = "fin" THEN Round(n.neg, n.bits, n.exp, FALSE) ELSE n

\* the float64 nearest to (-1)^neg * a / b, for a and b of la and lb binary
\* digits: a or b is shifted so that both have as many, and the quotient is
\* computed to 56 binary digits
RoundQuot(neg, q, e) ==
    IF q.bits = <<>> THEN Zero
    ELSE Round(neg, DropLeadingZeros(q.bits),
               IF q.bits[1] = "1" THEN e + 1 ELSE e, ~q.exact)

RatioAligned(neg, a, b, la, lb) ==
    RoundQuot(neg,
              QuotChunks(IF la < lb THEN ShiftLeft(a, lb - la) ELSE a,
                         IF lb < la THEN ShiftLeft(b, la - lb) ELSE b,
                         8, <<>>),
              la - lb)

Ratio(neg, a, b) ==
    IF a = <<>> THEN Zero
    ELSE RatioAligned(neg, a, b, Len(IntBits(a)), Len(IntBits(b)))

\* the float64 nearest to (-1)^neg * ds * 10^x, ds a string of digits read as
\* an integer; below 10^-325 it is zero
Decimal(neg, ds, x) ==
    IF x >= 0 THEN ToDouble(ExactInt(neg, TimesPow10(FromDigits(ds), x)))
    ELSE IF Len(ds) + x < 0 - 324 THEN Zero
    ELSE Ratio(neg, FromDigits(ds), Pow10(0 - x))

\* |a| < |b|, for a and b not NaN
MagLess(a, b) ==
    IF a.cls = "inf" THEN FALSE
    ELSE IF b.cls = "inf" THEN TRUE
    ELSE IF b.bits = <<>> THEN FALSE
    ELSE IF a.bits = <<>> THEN TRUE
    ELSE \/ a.exp < b.exp
         \/ a.exp = b.exp /\ StrLess(a.bits, b.bits)

\* a < b, for a and b not NaN
NumLess(a, b) ==
    IF a.neg # b.neg THEN a.neg
    ELSE IF a.neg THEN MagLess(b, a)
    ELSE MagLess(a, b)

\* JSON scalars as json() returns them: None, an int, a float, a str
JNull == [kind |-> "null", num |-> NaN, str |-> <<>>]
JInt(n) == [kind |-> "int", num |-> n, str |-> <<>>]
JFloat(x) == [kind |-> "float", num |-> x, str |-> <<>>]
JStr(s) == [kind |-> "str", num |-> NaN, str |-> s]

Range(f) == {f[a] : a \in DOMAIN f}

\* the sequences over S of length at most n
SeqsUpTo(S, n) == UNION {[1..k -> S] : k \in 0..n}

----------------------------------------------------------------------------
(* normalize_country_name, lines 89-112 *)

aliases ==
    { <<<<"c","z","e","c","h"," ","r","e","p","u","b","l","i","c">>,
        <<"c","z","e","c","h","i","a">>>>,
      <<<<"l","a","o","s">>,
        <<"l","a","o"," ","p","d","r">>>>,
      <<<<"b","a","h","a","m","a","s">>,
        <<"b","a","h","a","m","a","s"," ","t","h","e">>>>,
      <<<<"c","a","p","e"," ","v","e","r","d","e">>,
        <<"c","a","b","o"," ","v","e","r","d","e">>>>,
      <<<<"c","o","n","g","o"," ","b","r","a","z","z","a","v","i","l","l","e">>,
        <<"c","o","n","g","o"," ","r","e","p">>>>,
      <<<<"c","o","n","g","o"," ","d","r","c">>,
        <<"c","o","n","g","o"," ","d","e","m"," ","r","e","p">>>>,
      <<<<"e","s","w","a","t","i","n","i">>,
        <<"s","w","a","z","i","l","a","n","d">>>>,
      <<<<"g","a","m","b","i","a">>,
        <<"g","a","m","b","i","a"," ","t","h","e">>>>,
      <<<<"i","v","o","r","y"," ","c","o","a","s","t">>,
        <<"c","o","t","e"," ","d","i","v","o","i","r","e">>>>,
      <<<<"n","o","r","t","h"," ","k","o","r","e","a">>,
        <<"k","o","r","e","a"," ","d","e","m"," ","p","e","o","p","l","e","s"," ","r","e","p">>>>,
      <<<<"s","o","u","t","h"," ","k","o","r","e","a">>,
        <<"k","o","r","e","a"," ","r","e","p">>>>,
      <<<<"v","i","e","t","n","a","m">>,
        <<"v","i","e","t"," ","n","a","m">>>>,
      <<<<"r","u","s","s","i","a">>,
        <<"r","u","s","s","i","a","n"," ","f","e","d","e","r","a","t","i","o","n">>>>,
      <<<<"u","s","a">>,
        <<"u","n","i","t","e","d"," ","s","t","a","t","e","s"," ","o","f"," ","a","m","e","r","i","c","a">>>>,
      <<<<"u","n","i","t","e","d"," ","s","t","a","t","e","s">>,
        <<"u","n","i","t","e","d"," ","s","t","a","t","e","s"," ","o","f"," ","a","m","e","r","i","c","a">>>> }

\* aliases.get(s, s)
AliasGet(s) ==
    IF \E a \in aliases : a[1] = s
    THEN (CHOOSE a \in aliases : a[1] = s)[2]
    ELSE s

normalize_country_name(x) ==
    IF x = NA THEN x
    ELSE AliasGet(CollapseSpace(DropPunct(Lower(Strip(x)))))

----------------------------------------------------------------------------
(* standardize_colnames, lines 74-86 *)

country_name == <<"c","o","u","n","t","r","y","_","n","a","m","e">>
region == <<"r","e","g","i","o","n">>
iso3 == <<"i","s","o","3">>
subregion == <<"s","u","b","r","e","g","i","o","n">>
country_norm == <<"_","c","o","u","n","t","r","y","_","n","o","r","m">>

CountrySyn ==
    { <<"c","o","u","n","t","r","y">>,
      <<"c","o","u","n","t","r","y","_","n","a","m","e">>,
      <<"n","a","m","e">>,
      <<"c","o","u","n","t","r","y","n","a","m","e">> }
RegionSyn ==
    { <<"r","e","g","i","o","n">>,
      <<"w","o","r","l","d","_","r","e","g","i","o","n">> }
Iso3Syn ==
    { <<"i","s","o","3">>,
      <<"i","s","o","_","3">>,
      <<"i","s","o"," ","c","o","d","e"," ","3">>,
      <<"a","l","p","h","a","-","3">>,
      <<"i","s","o","3","c","o","d","e">>,
      <<"c","o","u","n","t","r","y","i","s","o","3","c","o","d","e">> }
SubregionSyn ==
    { <<"s","u","b","r","e","g","i","o","n">>,
      <<"s","u","b","_","r","e","g","i","o","n">> }

\* One iteration of the loop of lines 76-85: the mapping after column c.
MapColumn(m, c) ==
    LET cl == Lower(Strip(c))
    IN  IF cl \in CountrySyn /\ country_name \notin Range(m)
            THEN (c :> country_name) @@ m
        ELSE IF cl \in RegionSyn /\ region \notin Range(m)
            THEN (c :> region) @@ m
        ELSE IF cl \in Iso3Syn /\ iso3 \notin Range(m)
            THEN (c :> iso3) @@ m
        ELSE IF cl \in SubregionSyn /\ subregion \notin Range(m)
            THEN (c :> subregion) @@ m
        ELSE m

RECURSIVE MapFrom(_, _, _)
MapFrom(cs, i, m) ==
    IF i > Len(cs) THEN m ELSE MapFrom(cs, i + 1, MapColumn(m, cs[i]))

standardize_colnames(cs) == MapFrom(cs, 1, <<>>)

\* df.rename(columns=mapping): the column labels after the renaming
RenameColumns(cs, m) ==
    [i \in 1..Len(cs) |-> IF cs[i] \in DOMAIN m THEN m[cs[i]] ELSE cs[i]]

----------------------------------------------------------------------------
(* Tables *)

\* An indicator table is [columns, rows]: columns is the set of its column
\* labels and each row is a record with exactly those fields.  A reference
\* table is [columns, rows]: columns is the sequence of its column labels (as
\* strings of the model) and each row is the sequence of its cells, in the
\* order of the columns.

IndicatorId == "SP.POP.TOTL"

FlatColumns == {"country_name", "iso3", "year", "indicator", "value"}

\* pd.DataFrame([]) : no rows and no columns
EmptyFrame == [columns |-> {}, rows |-> <<>>]

\* df.empty
IsEmpty(df) == df.rows = <<>>

----------------------------------------------------------------------------
(* clean_worldbank_df, lines 130-140 *)

\* Series.astype(str) of a cell that is a string or missing.  Before pandas
\* 3.0 a missing value becomes the word it prints as: "nan" for the NaN of
\* read_csv, "None" for the None of a JSON null.  From 3.0 on (kept) the
\* strings make a string column, where a missing value stays missing.
NanWord == <<"n","a","n">>
NoneWord == <<"N","o","n","e">>

AsTypeStr(cell, word, kept) == IF cell = NA /\ ~kept THEN word ELSE cell

\* .str.upper(), .str.strip() and .apply(normalize_country_name) leave a
\* missing value missing
StrUpper(cell) == IF cell = NA THEN NA ELSE Upper(cell)
StrStrip(cell) == IF cell = NA THEN NA ELSE Strip(cell)

\* lines 134-136: the key columns of one row
CleanRow(r, kept) ==
    [country_name |-> StrStrip(AsTypeStr(r.country_name, NoneWord, kept)),
     iso3 |-> StrStrip(StrUpper(AsTypeStr(r.iso3, NoneWord, kept))),
     year |-> r.year,
     indicator |-> r.indicator,
     value |-> r.value,
     _country_norm |->
         normalize_country_name(
             StrStrip(AsTypeStr(r.country_name, NoneWord, kept)))]

\* key a sorts strictly before key b in ascending order, a missing key last
KeyLess(a, b) == a # NA /\ (b = NA \/ StrLess(a, b))

\* SortsBefore with the years ascending: the oldest observation comes first
SortsBefore_ascending(a, b) ==
    \/ KeyLess(a.iso3, b.iso3)
    \/ /\ a.iso3 = b.iso3
       /\ a.year # NaN
       /\ (b.year = NaN \/ NumLess(a.year, b.year))

\* Row a sorts strictly before row b under
\* sort_values(["iso3", "year"], ascending=[True, False]); NaN years go last.
SortsBefore(a, b) ==
    \/ KeyLess(a.iso3, b.iso3)
    \/ /\ a.iso3 = b.iso3
       /\ a.year # NaN
       /\ (b.year = NaN \/ NumLess(b.year, a.year))

\* r put into the sorted sequence s, after the rows it does not sort before
InsertRow(s, r) ==
    LET later == {i \in 1..Len(s) : SortsBefore(r, s[i])}
        pos == IF later = {} THEN Len(s) + 1
               ELSE CHOOSE i \in later : \A j \in later : i <= j
    IN  SubSeq(s, 1, pos - 1) \o <<r>> \o SubSeq(s, pos, Len(s))

\* line 137: the sort is stable, rows with equal keys keep their order
RECURSIVE SortValues(_)
SortValues(rows) ==
    IF rows = <<>> THEN <<>>
    ELSE InsertRow(SortValues(SubSeq(rows, 1, Len(rows) - 1)), rows[Len(rows)])

\* line 138
DropNaValue(rows) == SelectSeq(rows, LAMBDA r : r.value # NaN)

\* GroupBy.first() of one column, whose missing value is null: the first value
\* of the group that is not null, or null when all are
FirstOf(grp, col, null) ==
    LET present == {i \in 1..Len(grp) : grp[i][col] # null}
    IN  IF present = {} THEN grp[1][col]
        ELSE grp[CHOOSE i \in present : \A j \in present : i <= j][col]

\* line 139: one row per iso3, the groups in the order of their keys; the rows
\* without iso3 make no group
GroupFirst(rows) ==
    LET idx == [i \in 1..Len(rows) |-> i]
        heads == SelectSeq(idx, LAMBDA i :
                     /\ rows[i].iso3 # NA
                     /\ \A j \in 1..(i - 1) : rows[j].iso3 # rows[i].iso3)
        Group(k) == SelectSeq(rows, LAMBDA r : r.iso3 = rows[heads[k]].iso3)
    IN  [k \in 1..Len(heads) |->
            [country_name |-> FirstOf(Group(k), "country_name", NA),
             iso3 |-> rows[heads[k]].iso3,
             year |-> FirstOf(Group(k), "year", NaN),
             indicator |-> FirstOf(Group(k), "indicator", NAtok),
             value |-> FirstOf(Group(k), "value", NaN),
             _country_norm |-> FirstOf(Group(k), "_country_norm", NA)]]

clean_worldbank_df(df, kept) ==
    IF IsEmpty(df) THEN df
    ELSE LET out == [i \in 1..Len(df.rows) |-> CleanRow(df.rows[i], kept)]
         IN  [columns |-> df.columns \cup {"_country_norm"},
              rows |-> GroupFirst(DropNaValue(SortValues(out)))]

----------------------------------------------------------------------------
(* extract_worldbank_indicator, lines 30-71 *)

\* DictGet whose default is off by one
DictGet_default_plus_one(d, key, default) ==
    IF \E i \in 1..Len(d) : d[i][1] = key
    THEN d[CHOOSE i \in 1..Len(d) : d[i][1] = key][2]
    ELSE default + 1

\* dict.get(key, default) of a JSON object, held as a sequence of <<key, value>>
DictGet(d, key, default) ==
    IF \E i \in 1..Len(d) : d[i][1] = key
    THEN d[CHOOSE i \in 1..Len(d) : d[i][1] = key][2]
    ELSE default

\* RaisesForStatus without the call of raise_for_status()
RaisesForStatus_never(resp) == FALSE

\* lines 45-46: the request or raise_for_status() raises
RaisesForStatus(resp) == resp.status = "error"

\* line 48
NoPair(resp) == ~resp.is_list \/ Len(resp.data) < 2

\* LastPage with > for >=
LastPage_strict(p, meta) == p > DictGet(meta, "pages", 1)

\* line 62
LastPage(p, meta) == p >= DictGet(meta, "pages", 1)

\* lines 54-60: one raw record flattened
FlatRecord(r) ==
    [country_name |-> r.country,
     iso3 |-> r.countryiso3code,
     year |-> r.date,
     indicator |-> r.indicator,
     value |-> r.value]

\* the first position from i on that holds no digit
DigitsEnd(s, i) ==
    CHOOSE j \in i..(Len(s) + 1) :
        /\ j = Len(s) + 1 \/ s[j] \notin Digits
        /\ \A k \in i..(j - 1) : s[k] \in Digits

InfWords ==
    { <<"i","n","f">>, <<"+","i","n","f">>,
      <<"i","n","f","i","n","i","t","y">>, <<"+","i","n","f","i","n","i","t","y">> }
NegInfWords ==
    { <<"-","i","n","f">>, <<"-","i","n","f","i","n","i","t","y">> }

\* What a string is as a numeric literal: not one ("bad"), an integer literal
\* ("int": a sign and digits) or another one ("float": with a point or an
\* exponent).  ds are its digits, nfrac of them after the point, and edigits
\* the digits of its exponent, negative when eneg.
BadLiteral ==
    [form |-> "bad", neg |-> FALSE, ds |-> <<>>, nfrac |-> 0, eneg |-> FALSE,
     edigits |-> <<>>]

\* the literal t from its fraction on: the fraction is t[f1..i3-1], then an
\* exponent (e or E, a sign, at least one digit), then nothing
ParseExponent(t, neg, whole, dotted, f1, i3) ==
    LET frac == SubSeq(t, f1, i3 - 1)
        scaled == i3 <= Len(t) /\ t[i3] \in {"e", "E"}
        esigned == scaled /\ i3 + 1 <= Len(t) /\ t[i3 + 1] \in {"+", "-"}
        j2 == IF esigned THEN i3 + 2 ELSE i3 + 1
        j3 == IF scaled THEN DigitsEnd(t, j2) ELSE i3
        wellFormed ==
            /\ Len(whole) + Len(frac) >= 1
            /\ scaled => j3 > j2
            /\ j3 = Len(t) + 1
    IN  IF ~wellFormed THEN BadLiteral
        ELSE [form |-> IF dotted \/ scaled THEN "float" ELSE "int",
              neg |-> neg, ds |-> whole \o frac, nfrac |-> Len(frac),
              eneg |-> esigned /\ t[i3 + 1] = "-",
              edigits |-> IF scaled
                          THEN DropLeadingZeros(SubSeq(t, j2, j3 - 1))
                          ELSE <<>>]

\* the literal t from its digits on: digits t[i1..i2-1], at most one point
ParseMantissa(t, neg, i1, i2) ==
    LET dotted == i2 <= Len(t) /\ t[i2] = "."
    IN  ParseExponent(t, neg, SubSeq(t, i1, i2 - 1), dotted,
                      IF dotted THEN i2 + 1 ELSE i2,
                      IF dotted THEN DigitsEnd(t, i2 + 1) ELSE i2)

\* a literal without its blanks: a sign, then the digits
ParseLiteral(t) ==
    LET signed == Len(t) >= 1 /\ t[1] \in {"+", "-"}
        i1 == IF signed THEN 2 ELSE 1
    IN  ParseMantissa(t, signed /\ t[1] = "-", i1, DigitsEnd(t, i1))

\* a literal too large for a float64 is a parsing error
InRange(n) == IF n.cls = "inf" THEN NaN ELSE n

\* the float64 of a literal
ParseScale(neg, ds, nfrac, eneg, edigits) ==
    LET huge == Len(edigits) > 3
        e == IF eneg THEN 0 - DigitsValue(edigits) ELSE DigitsValue(edigits)
    IN  IF huge THEN (IF eneg THEN Zero ELSE NaN)
        ELSE IF e - nfrac > 308 THEN NaN
        ELSE InRange(Decimal(neg, ds, e - nfrac))

LiteralValue(l) ==
    IF l.form = "bad" THEN NaN
    ELSE ParseScale(l.neg, l.ds, l.nfrac, l.eneg, l.edigits)

\* pd.to_numeric(errors="coerce") of a string, as a float64.  A numeric
\* literal is blanks, a sign, digits with at most one point and at least one
\* digit, an exponent (e or E, a sign, at least one digit), blanks; its value
\* is the nearest float64, a literal too large for one is a parsing error and
\* one too small is zero.  The words for infinity are taken in any case,
\* unpadded.  All else is NaN.
ParseFloat(s) ==
    IF Lower(s) \in InfWords THEN Inf
    ELSE IF Lower(s) \in NegInfWords THEN NegInf
    ELSE LiteralValue(ParseLiteral(Strip(s)))

\* the float64 that pd.to_numeric(errors="coerce") makes of one cell in a
\* column of float64
ToFloat64(v) ==
    IF v.kind = "null" THEN NaN
    ELSE IF v.kind = "str" THEN ParseFloat(v.str)
    ELSE ToDouble(v.num)

\* the integer a cell of an object column is to pd.to_numeric: that of an int
\* and of an integer literal, NaN for what is none
LiteralInt(l) ==
    IF l.form = "int" THEN ExactInt(l.neg, FromDigits(l.ds)) ELSE NaN

CellInt(v) ==
    IF v.kind = "int" THEN v.num
    ELSE IF v.kind = "str" THEN LiteralInt(ParseLiteral(Strip(v.str)))
    ELSE NaN

\* 2^63 and 2^64
Int64End == [cls |-> "fin", neg |-> FALSE, bits |-> <<"1">>, exp |-> 64]
UInt64End == [cls |-> "fin", neg |-> FALSE, bits |-> <<"1">>, exp |-> 65]

\* the integers ns make an int64 or a uint64 column: each lies in
\* -2^63 .. 2^64 - 1, and none is negative when one is 2^63 or more
FitsIntColumn(ns) ==
    /\ \A i \in 1..Len(ns) :
          /\ ns[i] # NaN
          /\ NumLess(ns[i], UInt64End)
          /\ ns[i].neg => ~MagLess(Int64End, ns[i])
    /\ \/ \A i \in 1..Len(ns) : ~ns[i].neg
       \/ \A i \in 1..Len(ns) : NumLess(ns[i], Int64End)

\* pd.to_numeric(errors="coerce") of a column: the integers themselves when
\* every cell is an int or an integer literal and they fit an integer column,
\* and else the float64 of each cell
IntsOrFloats(cells, ints) ==
    IF FitsIntColumn(ints) THEN ints
    ELSE [i \in 1..Len(cells) |-> ToFloat64(cells[i])]

to_numeric(cells) ==
    IntsOrFloats(cells, [i \in 1..Len(cells) |-> CellInt(cells[i])])

\* lines 66-70: the flattened table
BuildFrame(flat) ==
    IF flat = <<>> THEN EmptyFrame
    ELSE LET years == to_numeric([i \in 1..Len(flat) |-> flat[i].year])
             values == to_numeric([i \in 1..Len(flat) |-> flat[i].value])
             typed == [i \in 1..Len(flat) |->
                          [flat[i] EXCEPT !.year = years[i],
                                          !.value = values[i]]]
         IN  [columns |-> FlatColumns,
              rows |-> SelectSeq(typed, LAMBDA r :
                           r.iso3 # NA /\ r.country_name # NA)]

----------------------------------------------------------------------------
(* clean_countries_csv, lines 115-127 *)

\* the positions of the columns labelled c
ColumnsNamed(columns, c) == {i \in 1..Len(columns) : columns[i] = c}

\* line 121
CleanIso3Cell(cell, kept) == StrStrip(StrUpper(AsTypeStr(cell, NanWord, kept)))

\* line 123
CleanNameCell(cell, kept) == StrStrip(AsTypeStr(cell, NanWord, kept))

\* CountryNormCell without the normalisation: the name in lower case
CountryNormCell_lower(cell) == Lower(cell)

\* line 124
CountryNormCell(cell) == normalize_country_name(cell)

\* df2["iso3"] or df2["country_name"] is a DataFrame when the label occurs
\* twice, and a DataFrame has no .str accessor
CleanCountriesRaises(df) ==
    /\ ~IsEmpty(df)
    /\ LET c2 == RenameColumns(df.columns, standardize_colnames(df.columns))
       IN  \/ Cardinality(ColumnsNamed(c2, iso3)) > 1
           \/ Cardinality(ColumnsNamed(c2, country_name)) > 1

clean_countries_csv(df, kept) ==
    IF IsEmpty(df) THEN df
    ELSE LET c2 == RenameColumns(df.columns, standardize_colnames(df.columns))
             isoAt == ColumnsNamed(c2, iso3)
             nameAt == ColumnsNamed(c2, country_name)
             Cell(row, i) ==
                 IF i \in isoAt THEN CleanIso3Cell(row[i], kept)
                 ELSE IF i \in nameAt THEN CleanNameCell(row[i], kept)
                 ELSE row[i]
             Norm(row) ==
                 IF nameAt = {} THEN NA
                 ELSE CountryNormCell(
                          CleanNameCell(row[CHOOSE i \in nameAt : TRUE], kept))
         IN  [columns |-> Append(c2, country_norm),
              rows |-> [k \in 1..Len(df.rows) |->
                           Append([i \in 1..Len(c2) |-> Cell(df.rows[k], i)],
                                  Norm(df.rows[k]))]]

----------------------------------------------------------------------------
(* merge_datasets, lines 143-148 *)

\* line 144
JoinsOnIso3(countries, wb) ==
    iso3 \in Range(countries.columns) /\ "iso3" \in wb.columns

\* wb[[...]] of an absent column, or a join key absent from the left table
MergeRaises(countries, wb) ==
    IF JoinsOnIso3(countries, wb)
    THEN ~({"indicator", "value"} \subseteq wb.columns)
    ELSE \/ ~({"_country_norm", "indicator", "value"} \subseteq wb.columns)
         \/ country_norm \notin Range(countries.columns)

\* The left join of lines 145 and 147 on the key held by the left column
\* leftKey and the right column rightKey.  Each merged row records the
\* position of the reference row it comes from.
LeftJoin(countries, wb, leftKey, rightKey) ==
    LET at == CHOOSE i \in ColumnsNamed(countries.columns, leftKey) : TRUE
        Hits(k) == SelectSeq(wb.rows, LAMBDA w :
                       w[rightKey] = countries.rows[k][at])
        \* a row without match puts NaN into the value column, which makes
        \* a column of integers one of float64
        Value(v) == IF \E k \in 1..Len(countries.rows) : Hits(k) = <<>>
                    THEN ToDouble(v) ELSE v
        RowsOf(k) ==
            IF Hits(k) = <<>>
            THEN << [left |-> k, cells |-> countries.rows[k],
                     indicator |-> NAtok, value |-> NaN] >>
            ELSE [h \in 1..Len(Hits(k)) |->
                     [left |-> k, cells |-> countries.rows[k],
                      indicator |-> Hits(k)[h].indicator,
                      value |-> Value(Hits(k)[h].value)]]
        RECURSIVE Upto(_)
        Upto(k) == IF k = 0 THEN <<>> ELSE Upto(k - 1) \o RowsOf(k)
    IN  [columns |-> countries.columns \o <<"indicator", "value">>,
         rows |-> Upto(Len(countries.rows))]

merge_datasets(countries, wb) ==
    IF JoinsOnIso3(countries, wb)
    THEN LeftJoin(countries, wb, iso3, "iso3")
    ELSE LeftJoin(countries, wb, country_norm, "_country_norm")

\* The values of the variables a specification does not use.
OffScript ==
    /\ pc = "off" /\ countries_df = EmptyFrame /\ page = 0
    /\ full_records = <<>> /\ flat_records = <<>> /\ requests = <<>>
    /\ responses = <<>> /\ raw_json = <<>> /\ wb_df = EmptyFrame
    /\ countries_clean = EmptyFrame /\ wb_clean = EmptyFrame
    /\ merged = EmptyFrame /\ files = <<>> /\ error = "none"
    /\ defined = {}

OffCalls ==
    /\ hpc = "off" /\ name_in = <<>> /\ norm1 = <<>> /\ norm2 = <<>>
    /\ cols = <<>> /\ mapping = <<>> /\ df_in = EmptyFrame
    /\ out_latest = EmptyFrame

\* The specifications of the functions called on their own: two make no use
\* of astype(str), and the tables given to clean_worldbank_df miss no name
\* and no code (line 70), so that astype(str) is the same in every version.
OffPandas == pandas3 = FALSE

----------------------------------------------------------------------------
(* The script, lines 156-179 *)

\* The reference CSVs of the model: a header list and the rows it may hold,
\* one of them with its cells empty, which read_csv reads as missing.
RefCsvs ==
    { [columns |-> << <<"C","o","u","n","t","r","y">>, <<"I","S","O","3">> >>,
       pool |-> { << <<"L","a","o","s">>, <<"l","a","o"," ">> >>,
                  << NA, NA >> }],
      [columns |-> << <<"C","o","u","n","t","r","y">> >>,
       pool |-> { << <<"L","a","o","s">> >>,
                  << NA >> }],
      [columns |-> << <<" ","n","a","m","e"," ">>,
                      <<"c","o","u","n","t","r","y","_","n","a","m","e">> >>,
       pool |-> { << <<"L","a","o","s">>, <<"L","a","o","s">> >> }],
      [columns |-> << <<"R","e","g","i","o","n">> >>,
       pool |-> { << <<"A","s","i","a">> >> }] }

RefTables ==
    UNION { { [columns |-> c.columns, rows |-> rows] :
              rows \in SeqsUpTo(c.pool, MaxRefRows) } : c \in RefCsvs }

\* The records of the series, page by page: odd pages carry one observation of
\* LAO, dated by the page (every other one with a null value); even pages
\* carry an observation of another code under another spelling of the same
\* country, with an unparseable date and its value as a padded literal, and a
\* record without a country.
PageContent(p) ==
    IF p % 2 = 1
    THEN << [country |-> <<"L","a","o"," ","P","D","R">>,
             countryiso3code |-> <<"L","A","O">>,
             date |-> JStr(<<Chars[Ord["0"] + p]>>),
             indicator |-> IndicatorId,
             value |-> IF p % 4 = 3 THEN JNull ELSE JInt(Number(6 + p))] >>
    ELSE << [country |-> <<" ","L","a","o","s">>,
             countryiso3code |-> <<"l","a","x">>,
             date |-> JStr(<<"x">>), indicator |-> IndicatorId,
             value |-> JStr(<<" ","1",".","5","e","1"," ">>)],
            [country |-> NA,
             countryiso3code |-> <<"L","A","O">>,
             date |-> JStr(<<"9">>), indicator |-> IndicatorId,
             value |-> JStr(<<"n",".","a",".">>)] >>

\* The metadata of a response: with or without a "pages" field.
Metas == { <<>> } \cup { << <<"pages", n>> >> : n \in 1..MaxPages }

\* What the GET of page p may be answered with: an HTTP or transport error, a
\* body that is no JSON list, a list of fewer than two elements, or
\* [metadata, records] with the records of the page or none.
Responses(p) ==
    { [status |-> "error", is_list |-> FALSE, data |-> <<>>],
      [status |-> "ok", is_list |-> FALSE, data |-> <<>>],
      [status |-> "ok", is_list |-> TRUE, data |-> <<>>],
      [status |-> "ok", is_list |-> TRUE, data |-> << <<>> >>] }
    \cup { [status |-> "ok", is_list |-> TRUE, data |-> <<m, rs>>] :
           m \in Metas, rs \in { <<>>, PageContent(p) } }

Init ==
    /\ pc = "extract_csv" /\ countries_df = EmptyFrame /\ page = 0
    /\ full_records = <<>> /\ flat_records = <<>> /\ requests = <<>>
    /\ responses = <<>> /\ raw_json = <<>> /\ wb_df = EmptyFrame
    /\ countries_clean = EmptyFrame /\ wb_clean = EmptyFrame
    /\ merged = EmptyFrame /\ files = <<>> /\ error = "none"
    /\ defined = {}
    /\ OffCalls
    /\ pandas3 \in BOOLEAN

\* line 160, and the call of line 161 up to the loop (lines 36-38)
ExtractCsv ==
    /\ pc = "extract_csv"
    /\ countries_df' \in RefTables
    /\ defined' = defined \cup {"countries_df"}
    /\ page' = 1 /\ full_records' = <<>> /\ flat_records' = <<>>
    /\ pc' = "fetch"
    /\ UNCHANGED <<requests, responses, raw_json, wb_df, countries_clean,
                   wb_clean, merged, files, error, callVars, pandas3>>

\* lines 41-64: one iteration of the loop, for the response resp
FetchPage(resp) ==
    /\ pc = "fetch"
    /\ requests' = Append(requests, page)
    /\ responses' = Append(responses, resp)
    /\ IF RaisesForStatus(resp)
       THEN \* line 46 raises; the frame and its lists are gone
            /\ error' = "HTTPError" /\ pc' = "aborted"
            /\ full_records' = <<>> /\ flat_records' = <<>>
            /\ UNCHANGED page
       ELSE IF NoPair(resp)
       THEN \* lines 48-49
            /\ pc' = "build_frame"
            /\ UNCHANGED <<page, full_records, flat_records, error>>
       ELSE LET meta == resp.data[1]
                records == resp.data[2]
            IN  /\ full_records' = full_records \o records
                /\ flat_records' = flat_records \o
                       [i \in 1..Len(records) |-> FlatRecord(records[i])]
                /\ IF LastPage(page, meta)
                   THEN pc' = "build_frame" /\ UNCHANGED page
                   ELSE pc' = "fetch" /\ page' = page + 1
                /\ UNCHANGED error
    /\ UNCHANGED <<countries_df, raw_json, wb_df, countries_clean, wb_clean,
                   merged, files, defined, callVars, pandas3>>

Fetch == \E resp \in Responses(page) : FetchPage(resp)

\* lines 66-71, and the assignment of line 161
ReturnFrame ==
    /\ pc = "build_frame"
    /\ raw_json' = full_records
    /\ wb_df' = BuildFrame(flat_records)
    /\ defined' = defined \cup {"raw_json", "wb_df"}
    /\ pc' = "store_json"
    /\ UNCHANGED <<countries_df, page, full_records, flat_records, requests,
                   responses, countries_clean, wb_clean, merged, files, error,
                   callVars, pandas3>>

\* lines 163-164
StoreJson ==
    /\ pc = "store_json"
    /\ files' = Append(files, "raw_json")
    /\ pc' = "clean_countries"
    /\ UNCHANGED <<countries_df, page, full_records, flat_records, requests,
                   responses, raw_json, wb_df, countries_clean, wb_clean,
                   merged, error, defined, callVars, pandas3>>

\* line 166
CleanCountries ==
    /\ pc = "clean_countries"
    /\ IF CleanCountriesRaises(countries_df)
       THEN /\ error' = "AttributeError" /\ pc' = "aborted"
            /\ UNCHANGED <<countries_clean, defined>>
       ELSE /\ countries_clean' = clean_countries_csv(countries_df, pandas3)
            /\ defined' = defined \cup {"countries_clean"}
            /\ pc' = "clean_wb"
            /\ UNCHANGED error
    /\ UNCHANGED <<countries_df, page, full_records, flat_records, requests,
                   responses, raw_json, wb_df, wb_clean, merged, files,
                   callVars, pandas3>>

\* line 167
CleanWb ==
    /\ pc = "clean_wb"
    /\ wb_clean' = clean_worldbank_df(wb_df, pandas3)
    /\ defined' = defined \cup {"wb_clean"}
    /\ pc' = "merge"
    /\ UNCHANGED <<countries_df, page, full_records, flat_records, requests,
                   responses, raw_json, wb_df, countries_clean, merged, files,
                   error, callVars, pandas3>>

\* line 168
Merge ==
    /\ pc = "merge"
    /\ IF MergeRaises(countries_clean, wb_clean)
       THEN /\ error' = "KeyError" /\ pc' = "aborted"
            /\ UNCHANGED <<merged, defined>>
       ELSE /\ merged' = merge_datasets(countries_clean, wb_clean)
            /\ defined' = defined \cup {"merged"}
            /\ pc' = "store_csv"
            /\ UNCHANGED error
    /\ UNCHANGED <<countries_df, page, full_records, flat_records, requests,
                   responses, raw_json, wb_df, countries_clean, wb_clean,
                   files, callVars, pandas3>>

\* StoreCsv placed before the merge
StoreCsv_before_merge ==
    /\ pc = "merge"
    /\ files' = Append(files, "merged_csv")
    /\ pc' = "print"
    /\ UNCHANGED <<countries_df, page, full_records, flat_records, requests,
                   responses, raw_json, wb_df, countries_clean, wb_clean,
                   merged, error, defined, callVars, pandas3>>

\* lines 170-171
StoreCsv ==
    /\ pc = "store_csv"
    /\ files' = Append(files, "merged_csv")
    /\ pc' = "print"
    /\ UNCHANGED <<countries_df, page, full_records, flat_records, requests,
                   responses, raw_json, wb_df, countries_clean, wb_clean,
                   merged, error, defined, callVars, pandas3>>

\* lines 174-179
PrintSummary ==
    /\ pc = "print"
    /\ pc' = "done"
    /\ UNCHANGED <<countries_df, page, full_records, flat_records, requests,
                   responses, raw_json, wb_df, countries_clean, wb_clean,
                   merged, files, error, defined, callVars, pandas3>>

Next ==
    \/ ExtractCsv
    \/ Fetch
    \/ ReturnFrame
    \/ StoreJson
    \/ CleanCountries
    \/ CleanWb
    \/ Merge
    \/ StoreCsv
    \/ PrintSummary

Spec == Init /\ [][Next]_vars

----------------------------------------------------------------------------
(* The functions called on their own *)

\* normalize_country_name, applied once and then to its own result
Alphabet == {"a", "o", "s", "l", "U", " ", "."}

NameInputs == SeqsUpTo(Alphabet, MaxLen) \cup {NA}

InitNormalize ==
    /\ OffScript /\ OffPandas
    /\ hpc = "start" /\ name_in \in NameInputs /\ norm1 = <<>> /\ norm2 = <<>>
    /\ cols = <<>> /\ mapping = <<>> /\ df_in = EmptyFrame
    /\ out_latest = EmptyFrame

NormalizeOnce ==
    /\ hpc = "start"
    /\ norm1' = normalize_country_name(name_in)
    /\ hpc' = "once"
    /\ UNCHANGED <<scriptVars, pandas3, name_in, norm2, cols, mapping, df_in,
                   out_latest>>

NormalizeTwice ==
    /\ hpc = "once"
    /\ norm2' = normalize_country_name(norm1)
    /\ hpc' = "twice"
    /\ UNCHANGED <<scriptVars, pandas3, name_in, norm1, cols, mapping, df_in,
                   out_latest>>

NextNormalize == NormalizeOnce \/ NormalizeTwice

SpecNormalize == InitNormalize /\ [][NextNormalize]_vars

\* standardize_colnames on a list of pairwise distinct headers
HeaderPool ==
    { <<"C","o","u","n","t","r","y"," ","N","a","m","e">>,
      <<"c","o","u","n","t","r","y","_","n","a","m","e">>,
      <<"C","O","U","N","T","R","Y","N","A","M","E">>,
      <<"C","o","u","n","t","r","y">>,
      <<" ","n","a","m","e"," ">>,
      <<"R","e","g","i","o","n">>,
      <<"I","S","O","3">>,
      <<"i","s","o"," ","c","o","d","e"," ","3">>,
      <<"s","u","b","_","r","e","g","i","o","n">>,
      <<"p","o","p","u","l","a","t","i","o","n">> }

Distinct(s) == \A i, j \in 1..Len(s) : i # j => s[i] # s[j]

HeaderLists == {h \in SeqsUpTo(HeaderPool, MaxCols) : Distinct(h)}

InitColnames ==
    /\ OffScript /\ OffPandas
    /\ hpc = "start" /\ cols \in HeaderLists /\ mapping = <<>>
    /\ name_in = <<>> /\ norm1 = <<>> /\ norm2 = <<>> /\ df_in = EmptyFrame
    /\ out_latest = EmptyFrame

StandardizeColnames ==
    /\ hpc = "start"
    /\ mapping' = standardize_colnames(cols)
    /\ hpc' = "done"
    /\ UNCHANGED <<scriptVars, pandas3, name_in, norm1, norm2, cols, df_in,
                   out_latest>>

NextColnames == StandardizeColnames

SpecColnames == InitColnames /\ [][NextColnames]_vars

\* clean_worldbank_df on a flattened indicator table
\* Rows of two countries; the codes of the first differ in case and padding.
CleanRowPool ==
    { [country_name |-> <<"L","a","o","s">>, iso3 |-> c, year |-> y,
       indicator |-> IndicatorId, value |-> v] :
      c \in { <<"l","a","o"," ">>, <<"L","A","O">> },
      y \in {NaN, Number(1), Number(2)},
      v \in {NaN, Number(5), Number(6)} }
    \cup
    { [country_name |-> <<"C","z","e","c","h","i","a">>,
       iso3 |-> <<"C","Z","E">>, year |-> Number(1),
       indicator |-> IndicatorId, value |-> v] : v \in {NaN, Number(5)} }

InitClean ==
    /\ OffScript /\ OffPandas
    /\ hpc = "start"
    /\ \E rows \in SeqsUpTo(CleanRowPool, MaxRows) :
          df_in = IF rows = <<>> THEN EmptyFrame
                  ELSE [columns |-> FlatColumns, rows |-> rows]
    /\ out_latest = EmptyFrame
    /\ name_in = <<>> /\ norm1 = <<>> /\ norm2 = <<>>
    /\ cols = <<>> /\ mapping = <<>>

CleanWorldbank ==
    /\ hpc = "start"
    /\ out_latest' = clean_worldbank_df(df_in, pandas3)
    /\ hpc' = "done"
    /\ UNCHANGED <<scriptVars, pandas3, name_in, norm1, norm2, cols, mapping,
                   df_in>>

NextClean == CleanWorldbank

SpecClean == InitClean /\ [][NextClean]_vars

----------------------------------------------------------------------------
(* Properties *)

\* C1: for a non-empty flattened indicator table, clean_worldbank_df returns
\* at most one row per ISO3 (the code as cleaned: upper case, trimmed); a row
\* exists only for an ISO3 with an input row whose value is not missing, and
\* its value is that of an input row of greatest year among the rows of that
\* ISO3 whose value is not missing.
LatestOf(o, rows) ==
    \E i \in 1..Len(rows) :
        /\ Strip(Upper(rows[i].iso3)) = o.iso3
        /\ rows[i].value # NaN
        /\ rows[i].value = o.value
        /\ \A j \in 1..Len(rows) :
              (Strip(Upper(rows[j].iso3)) = o.iso3 /\ rows[j].value # NaN)
              => \/ rows[j].year = NaN
                 \/ rows[i].year # NaN /\ ~NumLess(rows[i].year, rows[j].year)

CleanLatestPerIso3 ==
    (hpc = "done" /\ ~IsEmpty(df_in)) =>
        /\ \A a, b \in 1..Len(out_latest.rows) :
              a # b => out_latest.rows[a].iso3 # out_latest.rows[b].iso3
        /\ \A a \in 1..Len(out_latest.rows) :
              LatestOf(out_latest.rows[a], df_in.rows)

\* C1 witness: two observations of one country under differently written
\* codes, the later one kept, and a country with no value left out.
CleanLatestReached ==
    /\ hpc = "done"
    /\ Len(df_in.rows) = 3
    /\ df_in.rows[1].iso3 = <<"l","a","o"," ">> /\ df_in.rows[1].year = Number(1)
    /\ df_in.rows[1].value = Number(5)
    /\ df_in.rows[2].iso3 = <<"L","A","O">> /\ df_in.rows[2].year = Number(2)
    /\ df_in.rows[2].value = Number(6)
    /\ df_in.rows[3].iso3 = <<"C","Z","E">> /\ df_in.rows[3].value = NaN
    /\ Len(out_latest.rows) = 1
    /\ out_latest.rows[1].iso3 = <<"L","A","O">>
    /\ out_latest.rows[1].value = Number(6)

\* C3: normalize_country_name is idempotent.
NormalizeIdempotent ==
    hpc = "twice" => norm2 = norm1

\* C4: each of "Country Name", "country_name" and "COUNTRYNAME", when it is
\* the only country-like column, is mapped to country_name.
CountryLike(c) ==
    \/ Lower(Strip(c)) \in CountrySyn
    \/ c \in { <<"C","o","u","n","t","r","y"," ","N","a","m","e">>,
               <<"c","o","u","n","t","r","y","_","n","a","m","e">>,
               <<"C","O","U","N","T","R","Y","N","A","M","E">> }

CountryHeadersMapped ==
    hpc = "done" =>
        \A i \in 1..Len(cols) :
            ( /\ cols[i] \in { <<"C","o","u","n","t","r","y"," ","N","a","m","e">>,
                               <<"c","o","u","n","t","r","y","_","n","a","m","e">>,
                               <<"C","O","U","N","T","R","Y","N","A","M","E">> }
              /\ \A j \in 1..Len(cols) : j # i => ~CountryLike(cols[j]) )
            => /\ cols[i] \in DOMAIN mapping
               /\ mapping[cols[i]] = country_name

\* C10: for pairwise distinct headers at most one column is renamed to each
\* canonical name, the first that matches, and the renamed header list has
\* no two equal names.
SynonymsOf(target) ==
    IF target = country_name THEN CountrySyn
    ELSE IF target = region THEN RegionSyn
    ELSE IF target = iso3 THEN Iso3Syn
    ELSE SubregionSyn

RenameNeverCollides ==
    hpc = "done" =>
        /\ \A c, d \in DOMAIN mapping : mapping[c] = mapping[d] => c = d
        /\ \A i \in 1..Len(cols) :
              cols[i] \in DOMAIN mapping =>
                  \A j \in 1..(i - 1) :
                      Lower(Strip(cols[j])) \notin SynonymsOf(mapping[cols[i]])
        /\ Distinct(RenameColumns(cols, mapping))

\* C2: merge_datasets returns a table with one row for each row of the
\* cleaned reference table, none dropped and none duplicated, on either join
\* path and also for the empty table of an empty fetch.
MergeKeepsEveryRow ==
    ({"countries_clean", "wb_clean"} \subseteq defined /\ pc # "merge") =>
        /\ "merged" \in defined
        /\ Len(merged.rows) = Len(countries_clean.rows)
        /\ \A k \in 1..Len(countries_clean.rows) :
              Cardinality({i \in 1..Len(merged.rows) :
                               merged.rows[i].left = k}) = 1

\* A response that is a [metadata, records] pair reporting pages = n.
ReportsPages(resp, n) ==
    /\ resp.status = "ok" /\ resp.is_list /\ Len(resp.data) = 2
    /\ resp.data[1] = << <<"pages", n>> >>

RECURSIVE RecordsOf(_)
RecordsOf(rs) ==
    IF rs = <<>> THEN <<>>
    ELSE RecordsOf(SubSeq(rs, 1, Len(rs) - 1)) \o rs[Len(rs)].data[2]

\* C5: when every response is a well-formed pair reporting pages = N, the
\* requests are for pages 1, 2, ..., N in that order and no more, the loop
\* runs until the N-th response and then ends, and the flattened table is
\* built only after it, from the records of all N pages.
AllPagesConsumed ==
    \A n \in 1..MaxPages :
        (responses # <<>> /\ \A i \in 1..Len(responses) :
                                 ReportsPages(responses[i], n)) =>
            /\ requests = [i \in 1..Len(requests) |-> i]
            /\ Len(requests) <= n
            /\ (pc = "fetch") <=> (Len(requests) < n)
            /\ error # "HTTPError"
            /\ "wb_df" \in defined =>
                  /\ Len(requests) = n
                  /\ raw_json = RecordsOf(responses)
                  /\ wb_df = BuildFrame([i \in 1..Len(raw_json) |->
                                            FlatRecord(raw_json[i])])

\* C5 witness: three pages, each reporting pages = 3 and carrying its
\* records, and the table built.
ThreePagesConsumed ==
    /\ Len(responses) = 3
    /\ \A i \in 1..3 : /\ ReportsPages(responses[i], 3)
                       /\ responses[i].data[2] # <<>>
    /\ "wb_df" \in defined
    /\ Len(raw_json) = 4
    /\ Len(wb_df.rows) = 3

\* A first response with fewer than two top-level elements, or [{}, []].
EmptyOrMalformed(resp) ==
    /\ resp.status = "ok"
    /\ \/ ~resp.is_list
       \/ Len(resp.data) < 2
       \/ resp.data = << <<>>, <<>> >>

\* C6: a malformed or empty first response ends the pagination after that one
\* request, without an exception, and the function returns an empty raw list
\* and an empty table.
EmptyFirstPageStops ==
    (responses # <<>> /\ EmptyOrMalformed(responses[1])) =>
        /\ requests = <<1>>
        /\ pc # "fetch"
        /\ error # "HTTPError"
        /\ pc = "build_frame" => full_records = <<>> /\ flat_records = <<>>
        /\ pc # "build_frame" =>
              /\ {"raw_json", "wb_df"} \subseteq defined
              /\ raw_json = <<>>
              /\ wb_df = EmptyFrame

\* C6 witness: the first page is [{}, []] and the function has returned.
EmptyMetadataReturned ==
    /\ responses # <<>>
    /\ responses[1].is_list
    /\ responses[1].data = << <<>>, <<>> >>
    /\ "wb_df" \in defined

\* C7: when one side has no iso3 column the join is on _country_norm, and a
\* reference row is joined to exactly the indicator rows whose _country_norm
\* is normalize_country_name of its name.
NameJoinMatches ==
    ( /\ "merged" \in defined
      /\ \/ iso3 \notin Range(countries_clean.columns)
         \/ "iso3" \notin wb_clean.columns ) =>
        \A k \in 1..Len(countries_df.rows) :
            LET nameAt == ColumnsNamed(countries_clean.columns, country_name)
                key == IF nameAt = {} THEN NA
                       ELSE normalize_country_name(
                                countries_df.rows[k][CHOOSE i \in nameAt : TRUE])
                hits == SelectSeq(wb_clean.rows, LAMBDA w : w._country_norm = key)
                got == SelectSeq(merged.rows, LAMBDA m : m.left = k)
            IN  IF hits = <<>>
                THEN /\ Len(got) = 1
                     /\ got[1].indicator = NAtok /\ got[1].value = NaN
                ELSE /\ Len(got) = Len(hits)
                     /\ \A h \in 1..Len(hits) :
                           /\ got[h].indicator = hits[h].indicator
                           /\ got[h].value = hits[h].value

\* C7 witness: the reference row "Laos" of a CSV without ISO3 column has
\* received the value of the indicator row whose _country_norm is "lao pdr".
LaosMatched ==
    /\ "merged" \in defined
    /\ countries_df.columns = << <<"C","o","u","n","t","r","y">> >>
    /\ countries_df.rows = << << <<"L","a","o","s">> >> >>
    /\ Len(wb_clean.rows) = 1
    /\ wb_clean.rows[1]._country_norm = <<"l","a","o"," ","p","d","r">>
    /\ Len(merged.rows) = 1
    /\ merged.rows[1].indicator = IndicatorId
    /\ merged.rows[1].value = wb_clean.rows[1].value

\* C8: an HTTP or transport error on a page request ends the run at that
\* request: no request follows it, the records fetched before it are gone,
\* and no output file is written.
HttpErrorAborts ==
    \A i \in 1..Len(responses) :
        responses[i].status = "error" =>
            /\ i = Len(responses)
            /\ Len(requests) = i
            /\ pc = "aborted" /\ error = "HTTPError"
            /\ full_records = <<>> /\ flat_records = <<>>
            /\ defined \cap {"raw_json", "wb_df", "merged"} = {}
            /\ files = <<>>

\* C8 witness: the second request fails after a first page with records.
SecondPageFailed ==
    /\ Len(responses) = 2
    /\ responses[1].status = "ok" /\ responses[1].is_list
    /\ Len(responses[1].data) = 2 /\ responses[1].data[2] # <<>>
    /\ responses[2].status = "error"
    /\ pc = "aborted"

Cleaning == {"clean_countries", "clean_wb"}
AfterCleaning == {"merge", "store_csv", "print", "done"}

\* C9 as stated: the fetch completes before any cleaning, both cleaning steps
\* before the merge, and the merge before any output file is written.
StrictlySequential ==
    /\ (pc \in Cleaning \cup AfterCleaning) => {"raw_json", "wb_df"} \subseteq defined
    /\ (pc \in AfterCleaning) => {"countries_clean", "wb_clean"} \subseteq defined
    /\ "merged" \in defined => {"countries_clean", "wb_clean"} \subseteq defined
    /\ files # <<>> => "merged" \in defined

\* C9 amended: the fetch completes before the raw JSON archive is written,
\* the archive is written before any cleaning starts, both cleaning steps
\* complete before the merge starts, and the merge completes before the
\* merged CSV is written.
SequentialArchiveFirst ==
    /\ (pc \in Cleaning \cup AfterCleaning) => {"raw_json", "wb_df"} \subseteq defined
    /\ (pc \in AfterCleaning) => {"countries_clean", "wb_clean"} \subseteq defined
    /\ "merged" \in defined => {"countries_clean", "wb_clean"} \subseteq defined
    /\ files \in { <<>>, <<"raw_json">>, <<"raw_json", "merged_csv">> }
    /\ files # <<>> => {"raw_json", "wb_df"} \subseteq defined
    /\ (pc \in Cleaning \cup AfterCleaning \/ defined \cap {"countries_clean", "wb_clean"} # {})
           => (files # <<>> /\ files[1] = "raw_json")
    /\ Len(files) = 2 => "merged" \in defined

\* C9 witness: a run that wrote both files.
BothFilesWritten ==
    /\ pc = "done"
    /\ files = <<"raw_json", "merged_csv">>
    /\ Len(merged.rows) > 0

====
